---- MODULE Spec2Model ----
(***************************************************************************)
(* Model of voice/scripts/tts.py: the ElevenLabs text-to-speech CLI.       *)
(*                                                                         *)
(* Credentials, languages and texts are sequences of characters or        *)
(* tokens, bytes are one string each, the Python value None is the        *)
(* one-element sequence None, and a dict is a function whose DOMAIN is    *)
(* its key set.  Floats are counted in hundredths (0.75 is 75).           *)
(*                                                                         *)
(* voices.json, when it exists, holds JSON of the documented shape: a      *)
(* voices mapping whose entries have a voice_id, and a presets mapping    *)
(* that nothing validates.  json.loads raising on other content is not    *)
(* modelled.  The console accepts everything printed.                     *)
(***************************************************************************)
EXTENDS Integers, Sequences, FiniteSets, TLC

\* ------------------------------------------------------------------ bounds
MaxNames == 2      \* names usable as voice / preset keys and as --voice
MaxLines == 2      \* lines in the skill-local .env file

\* ------------------------------------------------------- python primitives
None == <<"None">>

\* truthiness of a value that is None or a str
Truthy(v) == v # None /\ v # <<>>

\* a or b
PyOr(a, b) == IF Truthy(a) THEN a ELSE b

\* d.get(k)
DictGet(d, k) == IF k \in DOMAIN d THEN d[k] ELSE None

\* d.get(k, default)
DictGetDefault(d, k, default) == IF k \in DOMAIN d THEN d[k] ELSE default

EmptyDict == [k \in {} |-> None]

Whitespace == {" "}
Quotes     == {"\"", "'"}

RECURSIVE LStrip(_, _)
LStrip(s, chars) ==
    IF s # <<>> /\ Head(s) \in chars THEN LStrip(Tail(s), chars) ELSE s

RECURSIVE RStrip(_, _)
RStrip(s, chars) ==
    IF s # <<>> /\ s[Len(s)] \in chars
    THEN RStrip(SubSeq(s, 1, Len(s) - 1), chars)
    ELSE s

\* str.strip(chars)
StripBoth(s, chars) == RStrip(LStrip(s, chars), chars)

\* ------------------------------------------------------ credential sources
ELEVEN_API_KEY     == "ELEVEN_API_KEY"
ELEVENLABS_API_KEY == "ELEVENLABS_API_KEY"
EnvNames == {ELEVEN_API_KEY, ELEVENLABS_API_KEY}

KeyStrings == {<<>>, <<"a">>, <<"b">>}

\* os.environ restricted to the two names the script reads
Environs == UNION {[S -> KeyStrings] : S \in SUBSET EnvNames}

\* a Clawdbot config file: missing, not JSON, JSON in which the nested
\* .get chain raises (e.g. {"tts": null} or a top-level list), or JSON
\* whose tts.elevenlabs.apiKey lookup yields apiKey (None when absent)
ConfigFiles ==
    {[kind |-> k, apiKey |-> None] : k \in {"absent", "malformed", "badshape"}}
    \cup {[kind |-> "json", apiKey |-> v] : v \in KeyStrings \cup {None}}

\* what follows "ELEVEN_API_KEY=" on a line: nothing, a bare value, a value
\* after a blank, a quoted value, an empty pair of quotes, a blank
Raws ==
    { <<>>, <<"a">>, <<" ", "b">>, <<"\"", "a", "\"">>, <<"'", "'">>, <<" ">> }

\* a .env line NAME=value; startswith("ELEVEN_API_KEY=") holds exactly
\* when NAME is ELEVEN_API_KEY
EnvLines ==
    {[name |-> ELEVEN_API_KEY, value |-> r] : r \in Raws}
    \cup {[name |-> ELEVENLABS_API_KEY, value |-> <<"a">>]}

\* the .env file: whether it exists, and its lines
NoEnvFile == [exists |-> FALSE, lines |-> <<>>]
EnvFiles ==
    {NoEnvFile}
    \cup {[exists |-> TRUE, lines |-> l] :
            l \in UNION {[1..n -> EnvLines] : n \in 0..MaxLines}}

\* ---------------------------------------------------------- get_api_key
\* lines 39: ELEVEN_API_KEY or ELEVENLABS_API_KEY
EnvLookup(env) ==
    PyOr(DictGet(env, ELEVEN_API_KEY), DictGet(env, ELEVENLABS_API_KEY))

\* lines 50-57, one config path: the key read, None when the file is
\* missing or reading it raised
ReadConfigKey(f) == IF f.kind = "json" THEN f.apiKey ELSE None

\* lines 49-57: first config path whose key is truthy
RECURSIVE ScanConfigs(_)
ScanConfigs(paths) ==
    IF paths = <<>> THEN None
    ELSE IF Truthy(ReadConfigKey(Head(paths))) THEN ReadConfigKey(Head(paths))
    ELSE ScanConfigs(Tail(paths))

\* line 64: line.split("=", 1)[1].strip().strip('"\'')
ParseEnvValue(raw) == StripBoth(StripBoth(raw, Whitespace), Quotes)

\* lines 61-64: the first ELEVEN_API_KEY= line is returned whatever it holds
RECURSIVE ScanEnvFile(_)
ScanEnvFile(lines) ==
    IF lines = <<>> THEN [found |-> FALSE, value |-> None]
    ELSE IF Head(lines).name = ELEVEN_API_KEY
         THEN [found |-> TRUE, value |-> ParseEnvValue(Head(lines).value)]
         ELSE ScanEnvFile(Tail(lines))

\* lines 60-64
ReadEnvFile(f) ==
    IF f.exists THEN ScanEnvFile(f.lines) ELSE [found |-> FALSE, value |-> None]

\* get_api_key with the .env file consulted before the environment
get_api_key_EnvFileFirst(env, home, root, envfile) ==
    IF ReadEnvFile(envfile).found
    THEN [exit |-> FALSE, key |-> ReadEnvFile(envfile).value]
    ELSE IF Truthy(EnvLookup(env))
    THEN [exit |-> FALSE, key |-> EnvLookup(env)]
    ELSE IF Truthy(ScanConfigs(<<home, root>>))
    THEN [exit |-> FALSE, key |-> ScanConfigs(<<home, root>>)]
    ELSE [exit |-> TRUE, key |-> None]

\* get_api_key(): exit is TRUE when the function ends in sys.exit(1),
\* otherwise key is the value returned
get_api_key(env, home, root, envfile) ==
    IF Truthy(EnvLookup(env))
    THEN [exit |-> FALSE, key |-> EnvLookup(env)]
    ELSE IF Truthy(ScanConfigs(<<home, root>>))
    THEN [exit |-> FALSE, key |-> ScanConfigs(<<home, root>>)]
    ELSE IF ReadEnvFile(envfile).found
    THEN [exit |-> FALSE, key |-> ReadEnvFile(envfile).value]
    ELSE [exit |-> TRUE, key |-> None]

\* ------------------------------------------------------------- voices.json
NamePool == <<"rachel", "default", "daniel", "sarah">>
Names == {NamePool[i] : i \in 1..MaxNames}

DefaultStability       == 75
DefaultSimilarityBoost == 75
DefaultStyle           == 50

SettingKeys == {"stability", "similarity_boost", "style"}

\* a voice entry: voice_id, language (None when the key is absent) and the
\* settings dict
VoiceRecs ==
    << [voice_id |-> "v1", language |-> None, settings |-> EmptyDict],
       [voice_id |-> "v2", language |-> <<"d", "e", "-", "D", "E">>,
        settings |-> [k \in {"stability"} |-> 30]],
       [voice_id |-> "v3", language |-> <<"x", "x">>,
        settings |-> [k \in SettingKeys |-> 40]] >>

VoiceSet == {VoiceRecs[i] : i \in DOMAIN VoiceRecs}

VoiceMaps  == UNION {[S -> VoiceSet] : S \in SUBSET Names}
PresetMaps == UNION {[S -> Names] : S \in SUBSET Names}

\* every voices.json over Names: presets are not validated, so a preset may
\* name a missing voice, another preset, or share its name with a voice
SynthConfigs == {[voices |-> v, presets |-> p] : v \in VoiceMaps, p \in PresetMaps}

\* the configs of the CLI runs: the voice of the i-th name is the i-th entry
\* (cyclically), and at most one preset
VoiceOfName(n) ==
    LET i == CHOOSE j \in 1..MaxNames : NamePool[j] = n
    IN  VoiceRecs[((i - 1) % Len(VoiceRecs)) + 1]

MainConfigs ==
    {[voices |-> [n \in S |-> VoiceOfName(n)], presets |-> p] :
        S \in SUBSET Names,
        p \in {q \in PresetMaps : Cardinality(DOMAIN q) <= 1}}

\* ------------------------------------------------------------ file system
OutputDefault == "output.mp3"
SamplePath(name) == "samples/" \o name \o ".mp3"
Paths == {OutputDefault} \cup {SamplePath(n) : n \in Names}

OldBytes   == <<"o", "l", "d">>
AudioBytes == <<"I", "D", "3">>

\* ------------------------------------------------------------ HTTP outcomes
\* what urlopen / response.read / open do for one request:
\*   "200"       a response whose body is read in full; writable says
\*               whether open(output_path, "wb") succeeds
\*   "HTTPError" an error status; body is None when e.fp is falsy
\*   "URLError"  a failure raised while the request is sent (DNS, refused,
\*               connect timeout)
\*   "Timeout"   socket timeout raised by getresponse() or read(): a bare
\*               TimeoutError, not a URLError
ErrorBodies == {None, <<"A">>, <<"xFF">>}

Outcomes ==
    {[http |-> "200", body |-> AudioBytes, writable |-> w] : w \in BOOLEAN}
    \cup {[http |-> "HTTPError", body |-> b, writable |-> TRUE] : b \in ErrorBodies}
    \cup {[http |-> h, body |-> None, writable |-> TRUE] : h \in {"URLError", "Timeout"}}

NoExchange == [http |-> "none", body |-> None, writable |-> TRUE]

\* bytes.decode("utf-8"): ok is FALSE when UnicodeDecodeError is raised
AsciiBytes == {"A"}
Utf8Decode(bytes) ==
    IF \A i \in DOMAIN bytes : bytes[i] \in AsciiBytes
    THEN [ok |-> TRUE, text |-> bytes]
    ELSE [ok |-> FALSE, text |-> <<>>]

\* -------------------------------------------------------------- synthesize
\* ResolveName without the "not found" return: an unknown name falls through
ResolveName_NoNotFound(voices_data, voice_name) ==
    IF voice_name \in DOMAIN voices_data.voices
    THEN [found |-> TRUE, name |-> voice_name]
    ELSE IF voice_name \in DOMAIN voices_data.presets
    THEN [found |-> TRUE, name |-> voices_data.presets[voice_name]]
    ELSE [found |-> TRUE, name |-> voice_name]

\* lines 93-101: the name looked up in voices, found FALSE on the
\* "not found" return
ResolveName(voices_data, voice_name) ==
    IF voice_name \in DOMAIN voices_data.voices
    THEN [found |-> TRUE, name |-> voice_name]
    ELSE IF voice_name \in DOMAIN voices_data.presets
    THEN [found |-> TRUE, name |-> voices_data.presets[voice_name]]
    ELSE [found |-> FALSE, name |-> voice_name]

\* lines 104-126: url, headers and payload of the POST
BuildRequest(text, voice, key) ==
    [ voice_id         |-> voice.voice_id,
      xi_api_key       |-> key,
      text             |-> text,
      stability        |-> DictGetDefault(voice.settings, "stability", DefaultStability),
      similarity_boost |-> DictGetDefault(voice.settings, "similarity_boost",
                                          DefaultSimilarityBoost),
      style            |-> DictGetDefault(voice.settings, "style", DefaultStyle) ]

\* the outcome of one synthesize call: raised names the exception that
\* leaves the function ("" when it returns ret)
SynthResult(ret, raised, reqs, files, out) ==
    [ret |-> ret, raised |-> raised, requests |-> reqs, fs |-> files, printed |-> out]

\* lines 128-145: the request is sent once; the file is opened only after
\* response.read() has returned
HttpExchange(req, output_path, out, files) ==
    CASE out.http = "200" ->
            IF out.writable
            THEN SynthResult(TRUE, "", <<req>>,
                             [files EXCEPT ![output_path] = out.body], <<"saved">>)
            ELSE SynthResult(FALSE, "OSError", <<req>>, files, <<>>)
      [] out.http = "HTTPError" ->
            IF out.body # None /\ ~Utf8Decode(out.body).ok
            THEN SynthResult(FALSE, "UnicodeDecodeError", <<req>>, files, <<>>)
            ELSE SynthResult(FALSE, "", <<req>>, files, <<"api_error">>)
      [] out.http = "URLError" ->
            SynthResult(FALSE, "", <<req>>, files, <<"network_error">>)
      [] OTHER ->
            SynthResult(FALSE, "TimeoutError", <<req>>, files, <<>>)

\* synthesize with the presets consulted before the voices
synthesize_PresetFirst(text, voice_name, output_path, voices_data, key, out, files) ==
    LET name == IF voice_name \in DOMAIN voices_data.presets
                THEN voices_data.presets[voice_name]
                ELSE voice_name
    IN
    IF name \notin DOMAIN voices_data.voices
    THEN SynthResult(FALSE, "", <<>>, files, <<"voice_not_found">>)
    ELSE HttpExchange(BuildRequest(text, voices_data.voices[name], key),
                      output_path, out, files)

\* synthesize(text, voice_name, output_path, voices_data, api_key) when the
\* network and the file system answer as out, starting from the files
synthesize(text, voice_name, output_path, voices_data, key, out, files) ==
    LET r == ResolveName(voices_data, voice_name) IN
    IF ~r.found
    THEN SynthResult(FALSE, "", <<>>, files, <<"voice_not_found">>)
    ELSE IF r.name \notin DOMAIN voices_data.voices
    THEN SynthResult(FALSE, "KeyError", <<>>, files, <<>>)
    ELSE HttpExchange(BuildRequest(text, voices_data.voices[r.name], key),
                      output_path, out, files)

\* -------------------------------------------------------------- test_voices
DefaultLanguage == <<"e", "n", "-", "U", "S">>

\* lines 154-160
test_texts ==
    [l \in {<<"e", "n">>, <<"d", "e">>, <<"e", "s">>, <<"f", "r">>, <<"i", "t">>} |->
        <<"sample", l[1], l[2]>>]

\* line 168: v.get("language", "en-US")[:2]
LangOf(v) ==
    LET l == IF v.language = None THEN DefaultLanguage ELSE v.language
    IN  SubSeq(l, 1, IF Len(l) < 2 THEN Len(l) ELSE 2)

\* line 169: test_texts.get(lang, test_texts["en"])
SampleText(v) == DictGetDefault(test_texts, LangOf(v), test_texts[<<"e", "n">>])

\* the orders in which voices.items() can yield the keys (the order of the
\* JSON object)
Orders(S) ==
    {o \in [1..Cardinality(S) -> S] : \A i, j \in DOMAIN o : i # j => o[i] # o[j]}

\* ------------------------------------------------------------------- state
VARIABLES
    environ,      \* os.environ (the two names read)
    homeCfg,      \* ~/.clawdbot/clawdbot.json
    rootCfg,      \* /root/.clawdbot/clawdbot.json
    envFile,      \* SKILL_DIR/.env
    voicesFile,   \* SKILL_DIR/voices.json: exists, and its parsed content
    fs,           \* the output files: path -> bytes, None when missing
    args,         \* the parsed command line
    pc,           \* position of main()
    voices_data,  \* main's voices_data
    api_key,      \* main's api_key, None until get_api_key has returned
    todo,         \* test_voices: the voices still to be synthesized
    success,      \* test_voices: success
    failed,       \* test_voices: failed
    calls,        \* the synthesize calls made so far, with their outcomes
    printed,      \* what was printed, one tag per message
    exit_code,    \* the exit status once pc = "exited"
    raised        \* the uncaught exception that ended the process, or ""

vars == <<environ, homeCfg, rootCfg, envFile, voicesFile, fs, args, pc,
          voices_data, api_key, todo, success, failed, calls, printed,
          exit_code, raised>>

sources == <<environ, homeCfg, rootCfg, envFile, voicesFile, args>>

EmptyConfig == [voices |-> EmptyDict, presets |-> EmptyDict]

Texts == {None, <<>>, <<"h", "i">>}

ArgSets ==
    [list : BOOLEAN, test : BOOLEAN, text : Texts, voice : Names,
     output : {OutputDefault}]

FileStates == {[p \in Paths |-> c] : c \in {None, OldBytes}}

\* ---------------------------------------------------------------- actions
\* sys.exit(code) after printing msgs
Exit(code, msgs) ==
    /\ pc' = "exited"
    /\ exit_code' = code
    /\ printed' = printed \o msgs

\* an exception nothing catches: traceback, exit status 1
Crash(exc) ==
    /\ pc' = "exited"
    /\ exit_code' = 1
    /\ raised' = exc

\* line 191, load_voices()
load_voices ==
    /\ pc = "load_voices"
    /\ IF ~voicesFile.exists
       THEN /\ Exit(1, <<"voices_json_not_found">>)
            /\ UNCHANGED voices_data
       ELSE /\ voices_data' = voicesFile.data
            /\ pc' = "dispatch"
            /\ UNCHANGED <<exit_code, printed>>
    /\ UNCHANGED <<sources, fs, api_key, todo, success, failed, calls, raised>>

\* lines 193-195, list_voices() and return
list_voices ==
    /\ pc = "dispatch"
    /\ args.list
    /\ Exit(0, <<"voice_table", "presets">>)
    /\ UNCHANGED <<sources, fs, voices_data, api_key, todo, success, failed,
                   calls, raised>>

\* the credential resolved before the --list branch is taken
resolve_api_key_BeforeList ==
    /\ pc = "dispatch"
    /\ LET r == get_api_key(environ, homeCfg, rootCfg, envFile) IN
       IF r.exit
       THEN /\ Exit(1, <<"no_api_key_found">>)
            /\ UNCHANGED api_key
       ELSE /\ api_key' = r.key
            /\ pc' = "keyed"
            /\ UNCHANGED <<exit_code, printed>>
    /\ UNCHANGED <<sources, fs, voices_data, todo, success, failed, calls, raised>>

\* line 197, api_key = get_api_key()
resolve_api_key ==
    /\ pc = "dispatch"
    /\ ~args.list
    /\ LET r == get_api_key(environ, homeCfg, rootCfg, envFile) IN
       IF r.exit
       THEN /\ Exit(1, <<"no_api_key_found">>)
            /\ UNCHANGED api_key
       ELSE /\ api_key' = r.key
            /\ pc' = "keyed"
            /\ UNCHANGED <<exit_code, printed>>
    /\ UNCHANGED <<sources, fs, voices_data, todo, success, failed, calls, raised>>

\* the record of one synthesize call
CallRecord(name, path, out, res) ==
    [ voice_name |-> name,
      output     |-> path,
      outcome    |-> IF res.requests = <<>> THEN NoExchange ELSE out,
      requests   |-> res.requests,
      ret        |-> IF res.raised # "" THEN "raised"
                     ELSE IF res.ret THEN "True" ELSE "False",
      before     |-> fs[path],
      after      |-> res.fs[path] ]

\* lines 199-200 and 150-165: test_voices up to the loop
test_voices_begin ==
    /\ pc = "keyed"
    /\ args.test
    /\ \E o \in Orders(DOMAIN voices_data.voices) : todo' = o
    /\ success' = 0
    /\ failed' = 0
    /\ printed' = Append(printed, "testing_all_voices")
    /\ pc' = "test_loop"
    /\ UNCHANGED <<sources, fs, voices_data, api_key, calls, exit_code, raised>>

\* lines 167-176: one iteration of the loop
test_voices_step ==
    /\ pc = "test_loop"
    /\ todo # <<>>
    /\ \E out \in Outcomes :
        LET name == Head(todo)
            path == SamplePath(name)
            res  == synthesize(SampleText(voices_data.voices[name]), name, path,
                               voices_data, api_key, out, fs)
        IN  /\ calls' = Append(calls, CallRecord(name, path, out, res))
            /\ fs' = res.fs
            /\ IF res.raised # ""
               THEN /\ Crash(res.raised)
                    /\ printed' = printed \o <<"testing">> \o res.printed
                    /\ UNCHANGED <<todo, success, failed>>
               ELSE /\ todo' = Tail(todo)
                    /\ success' = IF res.ret THEN success + 1 ELSE success
                    /\ failed' = IF res.ret THEN failed ELSE failed + 1
                    /\ printed' = printed \o <<"testing">> \o res.printed
                    /\ UNCHANGED <<pc, exit_code, raised>>
    /\ UNCHANGED <<sources, voices_data, api_key>>

\* lines 178-179 and 201: the summary, then return
test_voices_end ==
    /\ pc = "test_loop"
    /\ todo = <<>>
    /\ Exit(0, <<"summary">>)
    /\ UNCHANGED <<sources, fs, voices_data, api_key, todo, success, failed,
                   calls, raised>>

\* the usage error returning instead of calling sys.exit(1)
usage_error_ExitZero ==
    /\ pc = "keyed"
    /\ ~args.test
    /\ ~Truthy(args.text)
    /\ Exit(0, <<"usage_help", "text_is_required">>)
    /\ UNCHANGED <<sources, fs, voices_data, api_key, todo, success, failed,
                   calls, raised>>

\* lines 203-206: no text to synthesize
usage_error ==
    /\ pc = "keyed"
    /\ ~args.test
    /\ ~Truthy(args.text)
    /\ Exit(1, <<"usage_help", "text_is_required">>)
    /\ UNCHANGED <<sources, fs, voices_data, api_key, todo, success, failed,
                   calls, raised>>

\* line 208: synthesize(args.text, args.voice, args.output, ...), whose
\* result main ignores
main_synthesize ==
    /\ pc = "keyed"
    /\ ~args.test
    /\ Truthy(args.text)
    /\ \E out \in Outcomes :
        LET res == synthesize(args.text, args.voice, args.output, voices_data,
                              api_key, out, fs)
        IN  /\ calls' = Append(calls, CallRecord(args.voice, args.output, out, res))
            /\ fs' = res.fs
            /\ printed' = printed \o res.printed
            /\ IF res.raised # ""
               THEN Crash(res.raised)
               ELSE /\ pc' = "exited"
                    /\ exit_code' = 0
                    /\ UNCHANGED raised
    /\ UNCHANGED <<sources, voices_data, api_key, todo, success, failed>>

\* --------------------------------------------------------- specifications
Quiet ==
    /\ todo = <<>>
    /\ success = 0
    /\ failed = 0
    /\ calls = <<>>
    /\ printed = <<>>
    /\ exit_code = 0
    /\ raised = ""

NoConfigFiles == [kind |-> "absent", apiKey |-> None]

\* the whole CLI: any flags, voices.json missing or any of MainConfigs, and
\* credential sources that make get_api_key return a key, return "" or exit
Init ==
    /\ environ \in {EmptyDict, [k \in {ELEVEN_API_KEY} |-> <<"a">>]}
    /\ homeCfg = NoConfigFiles
    /\ rootCfg = NoConfigFiles
    /\ envFile \in {NoEnvFile,
                    [exists |-> TRUE,
                     lines |-> <<[name |-> ELEVEN_API_KEY, value |-> <<>>]>>]}
    /\ voicesFile \in {[exists |-> FALSE, data |-> EmptyConfig]}
                      \cup {[exists |-> TRUE, data |-> c] : c \in MainConfigs}
    /\ fs \in FileStates
    /\ args \in ArgSets
    /\ pc = "load_voices"
    /\ voices_data = EmptyConfig
    /\ api_key = None
    /\ Quiet

Next ==
    \/ load_voices
    \/ list_voices
    \/ resolve_api_key
    \/ test_voices_begin
    \/ test_voices_step
    \/ test_voices_end
    \/ usage_error
    \/ main_synthesize

Spec == Init /\ [][Next]_vars

\* get_api_key alone: main at line 197 with every state of the four sources
InitCred ==
    /\ environ \in Environs
    /\ homeCfg \in ConfigFiles
    /\ rootCfg \in ConfigFiles
    /\ envFile \in EnvFiles
    /\ voicesFile = [exists |-> TRUE, data |-> EmptyConfig]
    /\ fs = [p \in Paths |-> None]
    /\ args = [list |-> FALSE, test |-> FALSE, text |-> None,
               voice |-> NamePool[1], output |-> OutputDefault]
    /\ pc = "dispatch"
    /\ voices_data = EmptyConfig
    /\ api_key = None
    /\ Quiet

SpecCred == InitCred /\ [][resolve_api_key]_vars

\* synthesize alone: main at line 208 with every config of SynthConfigs
InitSynth ==
    /\ environ = [k \in {ELEVEN_API_KEY} |-> <<"a">>]
    /\ homeCfg = NoConfigFiles
    /\ rootCfg = NoConfigFiles
    /\ envFile = NoEnvFile
    /\ \E c \in SynthConfigs :
        /\ voicesFile = [exists |-> TRUE, data |-> c]
        /\ voices_data = c
    /\ fs \in FileStates
    /\ \E v \in Names :
        args = [list |-> FALSE, test |-> FALSE, text |-> <<"h", "i">>,
                voice |-> v, output |-> OutputDefault]
    /\ pc = "keyed"
    /\ api_key = <<"a">>
    /\ Quiet

SpecSynth == InitSynth /\ [][main_synthesize]_vars

\* ------------------------------------------------------------------ claims
Printed(tag) == \E i \in DOMAIN printed : printed[i] = tag

\* the value each credential source holds, in the documented order: the two
\* environment variables, the per-user config file, the absolute config
\* file, the first ELEVEN_API_KEY= line of the .env file
SourceValues ==
    << DictGet(environ, ELEVEN_API_KEY),
       DictGet(environ, ELEVENLABS_API_KEY),
       IF homeCfg.kind = "json" THEN homeCfg.apiKey ELSE None,
       IF rootCfg.kind = "json" THEN rootCfg.apiKey ELSE None,
       ReadEnvFile(envFile).value >>

NonEmptySources == {i \in DOMAIN SourceValues : Truthy(SourceValues[i])}

\* C1: once get_api_key has run, if any source holds a non-empty value, the
\* key returned is the value of the earliest such source in the documented
\* order; no later source overrides it.
C1_FirstNonEmptySourceWins ==
    (pc # "dispatch" /\ NonEmptySources # {}) =>
        /\ pc = "keyed"
        /\ \E i \in NonEmptySources :
            /\ \A j \in NonEmptySources : i <= j
            /\ api_key = SourceValues[i]

\* C1 witness: an environment variable and the .env file hold different
\* non-empty values and the environment's value was returned.
C1_Witness ==
    /\ pc = "keyed"
    /\ Truthy(SourceValues[1])
    /\ Truthy(SourceValues[5])
    /\ SourceValues[1] # SourceValues[5]
    /\ api_key = SourceValues[1]

\* C2: get_api_key never returns an empty string: it returns a non-empty
\* credential, or (when no source holds a non-empty value) prints the
\* guidance and exits with status 1.
C2_NeverReturnsEmpty ==
    (pc # "dispatch") =>
        IF NonEmptySources # {}
        THEN pc = "keyed" /\ Truthy(api_key)
        ELSE pc = "exited" /\ exit_code = 1 /\ Printed("no_api_key_found")

\* C3: a synthesize call whose name is a preset with a target that is not a
\* voice prints "voice not found" and returns False, without raising and
\* without issuing a request.
C3_InvalidPresetIsVoiceNotFound ==
    \A i \in DOMAIN calls :
        LET c == calls[i] IN
        ( /\ c.voice_name \notin DOMAIN voices_data.voices
          /\ c.voice_name \in DOMAIN voices_data.presets
          /\ voices_data.presets[c.voice_name] \notin DOMAIN voices_data.voices )
        => /\ c.ret = "False"
           /\ c.requests = <<>>
           /\ Printed("voice_not_found")

\* C4: a synthesize call whose name is in neither voices nor presets prints
\* "voice not found", returns False, issues no request and leaves the output
\* file as it was.
C4_UnknownNameIsVoiceNotFound ==
    \A i \in DOMAIN calls :
        LET c == calls[i] IN
        ( /\ c.voice_name \notin DOMAIN voices_data.voices
          /\ c.voice_name \notin DOMAIN voices_data.presets )
        => /\ c.ret = "False"
           /\ c.requests = <<>>
           /\ c.outcome = NoExchange
           /\ c.after = c.before
           /\ printed = <<"voice_not_found">>
           /\ raised = ""

\* C4 witness: such a call was made, with other voices configured.
C4_Witness ==
    \E i \in DOMAIN calls :
        /\ calls[i].voice_name \notin DOMAIN voices_data.voices
        /\ calls[i].voice_name \notin DOMAIN voices_data.presets
        /\ DOMAIN voices_data.voices # {}
        /\ calls[i].ret = "False"

\* C5: a synthesize call whose request ends in an HTTP error status returns
\* False, issues exactly one request and leaves the output file as it was.
C5_HttpErrorReturnsFailure ==
    \A i \in DOMAIN calls :
        LET c == calls[i] IN
        c.outcome.http = "HTTPError"
        => /\ c.ret = "False"
           /\ Len(c.requests) = 1
           /\ c.after = c.before

BatchStarted == Printed("testing_all_voices")

\* C6: the batch makes one synthesize call per voice whatever the earlier
\* calls did: success + failed counts the calls made so far, and the run
\* ends only after all N voices, with the summary and success + failed = N.
C6_BatchNeverStopsEarly ==
    BatchStarted =>
        /\ success + failed = Len(calls)
        /\ pc = "exited" =>
            /\ todo = <<>>
            /\ Len(calls) = Cardinality(DOMAIN voices_data.voices)
            /\ Printed("summary")

\* C7: every outcome of a synthesize call is a boolean returned to the
\* caller; no exception leaves synthesize and ends the run.
C7_SynthesisErrorsNeverAbort ==
    /\ raised = ""
    /\ \A i \in DOMAIN calls : calls[i].ret \in {"True", "False"}

NoModeGiven == ~args.list /\ ~args.test /\ args.text = None

\* C8 as stated: run with none of --list, --test, --text and voices.json
\* present, the CLI prints the usage help and exits non-zero.
C8_UsageHelpAlways ==
    (NoModeGiven /\ voicesFile.exists /\ pc = "exited") =>
        /\ Printed("usage_help")
        /\ exit_code # 0

\* C8 amended: in that case the CLI always exits with status 1; it prints
\* the usage help exactly when get_api_key returned, and the credential
\* guidance, without the usage help, when get_api_key found nothing.
C8_UsageHelpAfterCredential ==
    (NoModeGiven /\ voicesFile.exists /\ pc = "exited") =>
        /\ exit_code = 1
        /\ raised = ""
        /\ calls = <<>>
        /\ IF get_api_key(environ, homeCfg, rootCfg, envFile).exit
           THEN printed = <<"no_api_key_found">>
           ELSE printed = <<"usage_help", "text_is_required">>

\* C8 witness: the usage help was printed after a credential was found.
C8_Witness ==
    /\ NoModeGiven
    /\ voicesFile.exists
    /\ pc = "exited"
    /\ Truthy(api_key)
    /\ Printed("usage_help")
    /\ exit_code = 1

\* C9: with --list the run prints the voice table and ends with status 0
\* without resolving a credential, calling synthesize or touching a file,
\* whatever the credential sources hold; and in every mode a missing
\* voices.json ends the run with status 1 before anything else is done.
C9_ListNeedsNoCredential ==
    /\ (args.list /\ voicesFile.exists /\ pc # "load_voices") =>
        /\ api_key = None
        /\ calls = <<>>
        /\ fs \in FileStates
        /\ raised = ""
        /\ pc \in {"dispatch", "exited"}
        /\ pc = "exited" =>
            (exit_code = 0 /\ printed = <<"voice_table", "presets">>)
    /\ (~voicesFile.exists /\ pc # "load_voices") =>
        /\ pc = "exited"
        /\ exit_code = 1
        /\ printed = <<"voices_json_not_found">>
        /\ api_key = None
        /\ calls = <<>>
        /\ fs \in FileStates

\* C9 witness: --list together with --test ended with status 0 although no
\* credential source holds a key.
C9_Witness ==
    /\ args.list
    /\ args.test
    /\ pc = "exited"
    /\ exit_code = 0
    /\ get_api_key(environ, homeCfg, rootCfg, envFile).exit
    /\ Printed("voice_table")

\* the request synthesize must build for a voice: its voice_id, and each
\* setting the voice gives, 0.75 / 0.75 / 0.5 for those it does not
RequestOfVoice(v, c) ==
    /\ c.requests # <<>>
    /\ c.requests[1].voice_id = v.voice_id
    /\ c.requests[1].stability =
        (IF "stability" \in DOMAIN v.settings THEN v.settings["stability"] ELSE 75)
    /\ c.requests[1].similarity_boost =
        (IF "similarity_boost" \in DOMAIN v.settings
         THEN v.settings["similarity_boost"] ELSE 75)
    /\ c.requests[1].style =
        (IF "style" \in DOMAIN v.settings THEN v.settings["style"] ELSE 50)

IsAliasOfVoice(name) ==
    /\ name \in DOMAIN voices_data.presets
    /\ voices_data.presets[name] \in DOMAIN voices_data.voices

\* C10 as stated: for every preset alias whose target is a voice, the call
\* with the alias builds the request of the target voice.
C10_AliasResolvesToTarget ==
    \A i \in DOMAIN calls :
        IsAliasOfVoice(calls[i].voice_name) =>
            RequestOfVoice(voices_data.voices[voices_data.presets[calls[i].voice_name]],
                           calls[i])

\* C10 amended: a name that is a key of voices resolves to that voice, also
\* when a preset has the same name; a preset alias that is not a key of
\* voices and whose target is a voice builds the request of the target
\* voice (its voice_id, its settings, the defaults for absent fields); and
\* the loaded config is left as it was read.
C10_AliasNotShadowedResolvesToTarget ==
    /\ voices_data = voicesFile.data
    /\ \A i \in DOMAIN calls :
        LET n == calls[i].voice_name IN
        /\ n \in DOMAIN voices_data.voices =>
            RequestOfVoice(voices_data.voices[n], calls[i])
        /\ (n \notin DOMAIN voices_data.voices /\ IsAliasOfVoice(n)) =>
            RequestOfVoice(voices_data.voices[voices_data.presets[n]], calls[i])

\* C10 witness: an alias that is not a voice name was synthesized as its
\* target, a voice without settings, with the default settings.
C10_Witness ==
    \E i \in DOMAIN calls :
        LET n == calls[i].voice_name IN
        /\ n \notin DOMAIN voices_data.voices
        /\ IsAliasOfVoice(n)
        /\ DOMAIN voices_data.voices[voices_data.presets[n]].settings = {}
        /\ calls[i].requests # <<>>
        /\ calls[i].requests[1].voice_id = voices_data.voices[voices_data.presets[n]].voice_id
        /\ calls[i].requests[1].style = 50

====
